---- MODULE Spec2Model ----
(***************************************************************************)
(* A model of smart_pointers.h: the control blocks (BaseControlBlock,      *)
(* ControlBlockRegular, ControlBlockMakeShared), SharedPtr, WeakPtr and    *)
(* the factories allocateShared / makeShared.                              *)
(*                                                                         *)
(* The library is single threaded: every member function is one atomic     *)
(* step of the model, and everything it calls (temporaries, swap, the      *)
(* destructor of the temporary, destroy(), the destructor of the value and *)
(* of the handles the value holds, deallocate()) is part of that step.     *)
(*                                                                         *)
(* The value type T is instantiated with                                   *)
(*     struct Node { int val; WeakPtr<Node> self; SharedPtr<Node> next; }; *)
(* so that a value may itself hold handles.                                *)
(***************************************************************************)
EXTENDS Integers, FiniteSets, Sequences, TLC

\* ------------------------------------------------------------------ bounds
\* Number of allocations the program performs (addresses are never reused).
MaxBlocks == 2

\* nullptr
NULL == 0

\* size_t is 64 bits wide: a counter is four 16-bit limbs, the least
\* significant first, so that ++ and -- wrap at 2^64 as they do in the code.
Limb == 65536
\* The size_t with the value n, for 0 <= n < 2^31.
SizeT(n) == <<n % Limb, (n \div Limb) % Limb, 0, 0>>
\* size_t shared_count = 0; and the value after one ++
Zero == SizeT(0)
One == SizeT(1)

Ids == 1..MaxBlocks
\* Handles with automatic storage in the client:
\* SharedPtr<Node> a, b; WeakPtr<Node> w, x.
StrongVars == {"a", "b"}
WeakVars == {"w", "x"}
\* Constructor arguments of the value.
Vals == {5, 42}
\* What `if (cb->weak_count == 0) cb->deallocate();` may do once the block is
\* released (undefined behaviour): the read yields something else than zero
\* ("nonzero"); it yields zero and deallocate() runs a second time ("zero"); it
\* yields zero and the virtual call, through the released block's vptr, ends
\* the program with SIGSEGV ("crash"). Every allocation has its own storage
\* (and its own Alloc), so the outcome is one per block.
StaleOutcomes == {"nonzero", "zero", "crash"}
NoStale == [c \in Ids |-> "nonzero"]

VARIABLES
    blk,    \* the control blocks: address -> BaseControlBlock and its concrete part
    obj,    \* the values (Node objects): address -> value and its member handles
    sp,     \* the client's SharedPtr variables
    wp,     \* the client's WeakPtr variables
    crashed, \* the program was ended by a signal in the middle of a statement
    last,   \* the function that ran last, and whether it returned or threw
    twin    \* a second program, run in step with the first (see SpecTwin)

vars == <<blk, obj, sp, wp, crashed, last, twin>>

\* ------------------------------------------------------------ the records
\* A handle (SharedPtr or WeakPtr): T* ptr; BaseControlBlock* cb.
\* live = FALSE: the handle object does not exist (not constructed, or destroyed).
Handle(p, c) == [live |-> TRUE, ptr |-> p, cb |-> c]
NullHandle == Handle(NULL, NULL)
NoHandle == [live |-> FALSE, ptr |-> NULL, cb |-> NULL]

\* state: "free" (never allocated), "raw" (storage allocated, no block constructed
\* in it), "live" (a constructed control block), "released" (deallocated).
\* log: the calls of destroy() and deallocate() on the block, in order, each with
\* the counters it found.
FreeBlock ==
    [state |-> "free", kind |-> "none",
     shared_count |-> Zero, weak_count |-> Zero,
     ptr |-> NULL, log |-> <<>>]

\* state: "none", "alive", "destroyed". dtors: the number of ~Node() runs.
NoObject ==
    [state |-> "none", val |-> 0, next |-> NoHandle, self |-> NoHandle, dtors |-> 0]
NewObject(v) ==
    [state |-> "alive", val |-> v, next |-> NullHandle, self |-> NullHandle, dtors |-> 0]

\* Where a handle lives: a client variable (mem = NULL) or a member of value mem.
Var(n) == [mem |-> NULL, var |-> n]
Member(k, n) == [mem |-> k, var |-> n]

\* The program's state as one value, for the operators that transform it.
Cur == [blk |-> blk, obj |-> obj, sp |-> sp, wp |-> wp, crashed |-> crashed]

SGet(st, l) == IF l.mem = NULL THEN st.sp[l.var] ELSE st.obj[l.mem].next
SSet(st, l, h) ==
    IF l.mem = NULL THEN [st EXCEPT !.sp[l.var] = h]
    ELSE [st EXCEPT !.obj[l.mem].next = h]
WGet(st, l) == IF l.mem = NULL THEN st.wp[l.var] ELSE st.obj[l.mem].self
WSet(st, l, h) ==
    IF l.mem = NULL THEN [st EXCEPT !.wp[l.var] = h]
    ELSE [st EXCEPT !.obj[l.mem].self = h]

\* ------------------------------------------------------- the control block
\* ++(cb->shared_count), --(cb->shared_count) on size_t
Inc(x) ==
    IF x[1] < Limb - 1 THEN <<x[1] + 1, x[2], x[3], x[4]>>
    ELSE IF x[2] < Limb - 1 THEN <<0, x[2] + 1, x[3], x[4]>>
    ELSE IF x[3] < Limb - 1 THEN <<0, 0, x[3] + 1, x[4]>>
    ELSE IF x[4] < Limb - 1 THEN <<0, 0, 0, x[4] + 1>>
    ELSE <<0, 0, 0, 0>>
Dec(x) ==
    IF x[1] > 0 THEN <<x[1] - 1, x[2], x[3], x[4]>>
    ELSE IF x[2] > 0 THEN <<Limb - 1, x[2] - 1, x[3], x[4]>>
    ELSE IF x[3] > 0 THEN <<Limb - 1, Limb - 1, x[3] - 1, x[4]>>
    ELSE IF x[4] > 0 THEN <<Limb - 1, Limb - 1, Limb - 1, x[4] - 1>>
    ELSE <<Limb - 1, Limb - 1, Limb - 1, Limb - 1>>

\* x + k on size_t, for an integer k of either sign.
RECURSIVE Add(_, _)
Add(x, k) ==
    IF k = 0 THEN x
    ELSE IF k > 0 THEN Add(Inc(x), k - 1)
    ELSE Add(Dec(x), k + 1)

LogEvent(st, c, e) ==
    [st EXCEPT !.blk[c].log =
        Append(@, [ev |-> e,
                   shared |-> st.blk[c].shared_count,
                   weak |-> st.blk[c].weak_count,
                   released |-> st.blk[c].state = "released"])]

\* ControlBlockRegular::deallocate / ControlBlockMakeShared::deallocate:
\* allocTraits::deallocate(alloc_copy, this, 1)
Deallocate(st, c) ==
    [LogEvent(st, c, "deallocate") EXCEPT !.blk[c].state = "released"]

RECURSIVE DtorShared(_, _, _)
RECURSIVE DtorValue(_, _, _)

\* ~WeakPtr releasing the block with the last WeakPtr whatever shared_count is.
DtorWeakIgnoringShared(st, h) ==
    IF h.cb = NULL \/ st.crashed THEN st
    ELSE LET c == h.cb
             s1 == [st EXCEPT !.blk[c].weak_count = Dec(@)]
         IN IF s1.blk[c].weak_count = Zero
            THEN Deallocate(s1, c)
            ELSE s1

\* ~WeakPtr (not reached once the program has crashed)
DtorWeak(st, h) ==
    IF h.cb = NULL \/ st.crashed THEN st
    ELSE LET c == h.cb
             s1 == [st EXCEPT !.blk[c].weak_count = Dec(@)]
         IN IF s1.blk[c].weak_count = Zero /\ s1.blk[c].shared_count = Zero
            THEN Deallocate(s1, c)
            ELSE s1

\* ControlBlockRegular::destroy: deleter(ptr); ptr = nullptr;
\* (the deleter is std::default_delete: nothing for a null pointer, else ~Node()
\* and the release of the value's own storage). The block may be released by
\* the time the deleter returns: ptr is then written in released storage.
DestroyRegular(st, c, u) ==
    LET p == st.blk[c].ptr
        s1 == IF p = NULL THEN st ELSE DtorValue(st, p, u)
        s2 == IF s1.blk[c].state = "released" THEN LogEvent(s1, c, "write_ptr") ELSE s1
    IN IF s1.crashed THEN s1 ELSE [s2 EXCEPT !.blk[c].ptr = NULL]

\* ControlBlockMakeShared::destroy: allocTraits::destroy(alloc_copy, &ptr),
\* the value being the member of the block itself
DestroyMakeShared(st, c, u) == DtorValue(st, c, u)

\* cb->destroy(): the virtual call
Destroy(st, c, u) ==
    LET s0 == LogEvent(st, c, "destroy")
    IN IF st.blk[c].kind = "regular" THEN DestroyRegular(s0, c, u)
       ELSE DestroyMakeShared(s0, c, u)

\* ~Node(): the members are destroyed in reverse order of declaration, next
\* and then self (self is not reached when the program crashed in ~next).
DtorValue(st, k, u) ==
    LET o == st.obj[k]
        s0 == [st EXCEPT !.obj[k] =
                  [@ EXCEPT !.state = "destroyed", !.dtors = @ + 1,
                            !.next = NoHandle]]
        s1 == IF o.next.live THEN DtorShared(s0, o.next, u) ELSE s0
        s2 == [s1 EXCEPT !.obj[k].self = NoHandle]
    IN IF s1.crashed THEN s1
       ELSE IF o.self.live THEN DtorWeak(s2, o.self) ELSE s2

\* ~SharedPtr calling destroy() already when one other SharedPtr is left.
DtorSharedOffByOne(st, h, u) ==
    IF h.cb = NULL THEN st
    ELSE LET c == h.cb
             s1 == [st EXCEPT !.blk[c].shared_count = Dec(@)]
         IN IF s1.blk[c].shared_count \in {Zero, One}
            THEN LET s2 == Destroy(s1, c, u)
                 IN IF s2.blk[c].weak_count = Zero /\ s2.blk[c].state # "released"
                    THEN Deallocate(s2, c) ELSE s2
            ELSE s1

\* ~SharedPtr with destroy() called only once no WeakPtr is left either.
DtorSharedDestroyLate(st, h, u) ==
    IF h.cb = NULL THEN st
    ELSE LET c == h.cb
             s1 == [st EXCEPT !.blk[c].shared_count = Dec(@)]
         IN IF s1.blk[c].shared_count = Zero /\ s1.blk[c].weak_count = Zero
            THEN Deallocate(Destroy(s1, c, u), c)
            ELSE s1

\* ~SharedPtr (not reached once the program has crashed). After destroy() the
\* block may already be released (by the destructor of a WeakPtr the value
\* held): cb->weak_count is then read from released storage and the outcome
\* is u[c], one of StaleOutcomes.
DtorShared(st, h, u) ==
    IF h.cb = NULL \/ st.crashed THEN st
    ELSE LET c == h.cb
             s1 == [st EXCEPT !.blk[c].shared_count = Dec(@)]
         IN IF s1.blk[c].shared_count = Zero
            THEN LET s2 == Destroy(s1, c, u)
                     gone == s2.blk[c].state = "released"
                     s3 == LogEvent(s2, c, "read_weak_count")
                 IN IF s2.crashed THEN s2
                    ELSE IF gone
                    THEN IF u[c] = "nonzero" THEN s3
                         ELSE IF u[c] = "zero" THEN Deallocate(s3, c)
                         ELSE [s3 EXCEPT !.crashed = TRUE]
                    ELSE IF s2.blk[c].weak_count = Zero
                         THEN Deallocate(s2, c) ELSE s2
            ELSE s1

\* ------------------------------------------------------------- SharedPtr
\* SharedPtr(const SharedPtr& other) without the increment.
CopySharedNoIncrement(st, other) ==
    [h |-> Handle(other.ptr, other.cb), st |-> st]

\* SharedPtr(const SharedPtr& other): the new handle's value and the state
CopyShared(st, other) ==
    [h |-> Handle(other.ptr, other.cb),
     st |-> IF other.cb # NULL
            THEN [st EXCEPT !.blk[other.cb].shared_count = Inc(@)]
            ELSE st]

\* SharedPtr(const WeakPtr<T>& p) without the increment.
SharedFromWeakUncounted(st, p) ==
    [h |-> Handle(p.ptr, p.cb), st |-> st]

\* SharedPtr(const WeakPtr<T>& p)
SharedFromWeak(st, p) ==
    [h |-> Handle(p.ptr, p.cb),
     st |-> IF p.cb # NULL
            THEN [st EXCEPT !.blk[p.cb].shared_count = Inc(@)]
            ELSE st]

\* SharedPtr::use_count
UseCount(st, h) == IF h.cb = NULL THEN Zero ELSE st.blk[h.cb].shared_count

\* SharedPtr::get
Get(h) == h.ptr

\* SharedPtr::operator* / operator->: the address of the value reached, or
\* undefined (a null handle; a block that is no ControlBlockMakeShared read as one)
Deref(st, h) ==
    IF h.ptr # NULL THEN [defined |-> TRUE, at |-> h.ptr]
    ELSE IF h.cb # NULL /\ st.blk[h.cb].kind = "makeshared"
         THEN [defined |-> TRUE, at |-> h.cb]
         ELSE [defined |-> FALSE, at |-> NULL]

\* --------------------------------------------------------------- WeakPtr
\* WeakPtr(const SharedPtr<T>& shared) counting itself in shared_count.
CopyWeakCountingShared(st, other) ==
    [h |-> Handle(other.ptr, other.cb),
     st |-> IF other.cb # NULL
            THEN [st EXCEPT !.blk[other.cb].shared_count = Inc(@)]
            ELSE st]

\* WeakPtr(const SharedPtr<T>& shared), WeakPtr(const WeakPtr& other)
CopyWeak(st, other) ==
    [h |-> Handle(other.ptr, other.cb),
     st |-> IF other.cb # NULL
            THEN [st EXCEPT !.blk[other.cb].weak_count = Inc(@)]
            ELSE st]

\* WeakPtr::use_count returning the number of WeakPtr.
WeakUseCountOfWeak(st, h) ==
    IF h.cb = NULL THEN Zero ELSE st.blk[h.cb].weak_count

\* WeakPtr::use_count
WeakUseCount(st, h) ==
    IF h.cb = NULL THEN Zero ELSE st.blk[h.cb].shared_count

\* WeakPtr::expired
Expired(st, h) == WeakUseCount(st, h) = Zero

\* WeakPtr::lock without the test of expired().
LockUnchecked(st, h) == SharedFromWeak(st, h)

\* WeakPtr::lock
Lock(st, h) ==
    IF Expired(st, h) THEN [h |-> NullHandle, st |-> st]
    ELSE SharedFromWeak(st, h)

\* ------------------------------------------------------------ the client
\* The next unused address. A value made by new Node(v) and the control block
\* allocated for it get the same number in their two address spaces; so do a
\* ControlBlockMakeShared and the value that is its member.
Unused(st) == {k \in Ids : st.blk[k].state = "free" /\ st.obj[k].state = "none"}
Fresh(st) == CHOOSE k \in Unused(st) : \A j \in Unused(st) : k <= j

\* new Node(v) in the client: the value at the next address
NewNode(st, v) == [st EXCEPT !.obj[Fresh(st)] = NewObject(v)]

\* The values the client reaches through one of its SharedPtr variables (a->...).
Reach(st) ==
    {k \in Ids : st.obj[k].state = "alive" /\
        \E n \in StrongVars :
            /\ st.sp[n].live
            /\ UseCount(st, st.sp[n]) # Zero
            /\ Deref(st, st.sp[n]) = [defined |-> TRUE, at |-> k]}

\* The SharedPtr and WeakPtr objects the client can name.
StrongLocs(st) ==
    {l \in {Var(n) : n \in StrongVars} \cup {Member(k, "next") : k \in Reach(st)} :
        SGet(st, l).live}
WeakLocs(st) ==
    {l \in {Var(n) : n \in WeakVars} \cup {Member(k, "self") : k \in Reach(st)} :
        WGet(st, l).live}

\* The statement's result becomes the program's state.
Install(st) ==
    \E r \in {st} :
        /\ blk' = r.blk
        /\ obj' = r.obj
        /\ sp' = r.sp
        /\ wp' = r.wp
        /\ crashed' = r.crashed

Ran(op, ok) == last' = [op |-> op, ok |-> ok]

\* The program runs on: no statement of it (or of its twin) ended in a signal.
Running == ~crashed /\ ~twin.crashed

\* The blocks whose weak_count a statement reads after their release: st is the
\* state before the statement and r the state after it when every such read
\* yields something else than zero (the statement then runs to its end and
\* makes every read it can make).
StaleIn(st, r) ==
    {c \in Ids :
        \E i \in DOMAIN r.blk[c].log :
            /\ i > Len(st.blk[c].log)
            /\ r.blk[c].log[i].ev = "read_weak_count"}

\* The outcomes of the reads of released blocks in one statement, one per block
\* in B, the blocks the statement reads after their release.
StaleChoices(B) ==
    {u \in [Ids -> StaleOutcomes] : \A c \in Ids \ B : u[c] = "nonzero"}

\* SharedPtr(U* ptr, Deleter, Alloc) calling the deleter on the pointer when the
\* allocation throws (as std::shared_ptr does).
FromPointerDeleting(st, p, c, allocOK) ==
    IF ~allocOK
    THEN [ok |-> FALSE, h |-> NoHandle,
          st |-> IF p = NULL THEN st ELSE DtorValue(st, p, NoStale)]
    ELSE [ok |-> TRUE, h |-> Handle(p, c),
          st |-> [st EXCEPT !.blk[c] =
                     [state |-> "live", kind |-> "regular",
                      shared_count |-> Inc(Zero), weak_count |-> Zero,
                      ptr |-> p, log |-> <<>>]]]

\* SharedPtr(U* ptr, Deleter, Alloc) on the pointer p; the allocation of the
\* control block yields the address c or throws: [ok, h, st]
FromPointer(st, p, c, allocOK) ==
    IF ~allocOK THEN [ok |-> FALSE, h |-> NoHandle, st |-> st]
    ELSE [ok |-> TRUE, h |-> Handle(p, c),
          st |-> [st EXCEPT !.blk[c] =
                     [state |-> "live", kind |-> "regular",
                      shared_count |-> Inc(Zero), weak_count |-> Zero,
                      ptr |-> p, log |-> <<>>]]]

\* allocateShared with SharedPtr(ControlBlockMakeShared*) leaving shared_count
\* as the block's constructor set it.
AllocateSharedUncounted(st, v, c, ctorOK) ==
    LET s1 == [st EXCEPT !.blk[c].state = "raw"]
    IN IF ~ctorOK THEN [ok |-> FALSE, h |-> NoHandle, st |-> s1]
       ELSE [ok |-> TRUE, h |-> Handle(NULL, c),
             st |-> [s1 EXCEPT
                        !.blk[c] = [state |-> "live", kind |-> "makeshared",
                                    shared_count |-> Zero, weak_count |-> Zero,
                                    ptr |-> NULL, log |-> <<>>],
                        !.obj[c] = NewObject(v)]]

\* allocateShared: allocate (the address c), construct the block and the value
\* in it (which may throw), SharedPtr(ControlBlockMakeShared*): [ok, h, st]
AllocateShared(st, v, c, ctorOK) ==
    LET s1 == [st EXCEPT !.blk[c].state = "raw"]
    IN IF ~ctorOK THEN [ok |-> FALSE, h |-> NoHandle, st |-> s1]
       ELSE [ok |-> TRUE, h |-> Handle(NULL, c),
             st |-> [s1 EXCEPT
                        !.blk[c] = [state |-> "live", kind |-> "makeshared",
                                    shared_count |-> Inc(Zero), weak_count |-> Zero,
                                    ptr |-> NULL, log |-> <<>>],
                        !.obj[c] = NewObject(v)]]

\* SharedPtr(SharedPtr&& other) leaving other as it was.
MoveSharedKeepSource(st, s) ==
    [h |-> Handle(SGet(st, s).ptr, SGet(st, s).cb), st |-> st]

\* SharedPtr(SharedPtr&& other)
MoveShared(st, s) ==
    [h |-> Handle(SGet(st, s).ptr, SGet(st, s).cb),
     st |-> SSet(st, s, NullHandle)]

\* swap(copy) and the end of copy's scope: *this takes the temporary's value and
\* the temporary, now holding what *this held, is destroyed
SwapInAndDrop(st, d, h, u) ==
    LET old == SGet(st, d)
    IN DtorShared(SSet(st, d, h), old, u)

\* SharedPtr<Node> n;
DefaultConstructOn(st, n) == SSet(st, Var(n), NullHandle)

\* SharedPtr<Node> n(new Node(v), deleter, alloc);  [ok, st]
ConstructFromPointerOn(st, n, v, allocOK) ==
    LET p == Fresh(st)
        r == FromPointer(NewNode(st, v), p, p, allocOK)
    IN [ok |-> r.ok, st |-> IF r.ok THEN SSet(r.st, Var(n), r.h) ELSE r.st]

\* SharedPtr<Node> n(static_cast<Node*>(nullptr), deleter, alloc);  [ok, st]
ConstructFromNullOn(st, n, allocOK) ==
    LET r == FromPointer(st, NULL, Fresh(st), allocOK)
    IN [ok |-> r.ok, st |-> IF r.ok THEN SSet(r.st, Var(n), r.h) ELSE r.st]

\* SharedPtr<Node> n = makeShared<Node>(v);  [ok, st]
MakeSharedOn(st, n, v, ctorOK) ==
    LET r == AllocateShared(st, v, Fresh(st), ctorOK)
    IN [ok |-> r.ok, st |-> IF r.ok THEN SSet(r.st, Var(n), r.h) ELSE r.st]

\* SharedPtr<Node> n(s);
CopyConstructOn(st, n, s) ==
    LET r == CopyShared(st, SGet(st, s))
    IN SSet(r.st, Var(n), r.h)

\* SharedPtr<Node> n(std::move(s));
MoveConstructOn(st, n, s) ==
    LET r == MoveShared(st, s)
    IN SSet(r.st, Var(n), r.h)

\* operator=(const SharedPtr& other) giving up what *this holds before it
\* copies other.
CopyAssignDropFirst(st, d, s, u) ==
    IF d = s THEN st
    ELSE LET s0 == SwapInAndDrop(st, d, NullHandle, u)
             r == CopyShared(s0, SGet(s0, s))
         IN SSet(r.st, d, r.h)

\* SharedPtr::operator=(const SharedPtr& other)
CopyAssignOn(st, d, s, u) ==
    IF d = s THEN st
    ELSE LET r == CopyShared(st, SGet(st, s))
         IN SwapInAndDrop(r.st, d, r.h, u)

\* SharedPtr::operator=(SharedPtr&& other)
MoveAssignOn(st, d, s, u) ==
    LET r == MoveShared(st, s)
    IN SwapInAndDrop(r.st, d, r.h, u)

\* SharedPtr::reset()
ResetOn(st, d, u) == SwapInAndDrop(st, d, NullHandle, u)

\* reset(ptr, del, alloc) giving up what *this holds before the new control
\* block is made.
ResetPointerDropFirst(st, d, v, allocOK, u) ==
    LET s0 == SwapInAndDrop(st, d, NullHandle, u)
        p == Fresh(s0)
        r == FromPointer(NewNode(s0, v), p, p, allocOK)
    IN [ok |-> r.ok, mid |-> s0,
        st |-> IF r.ok THEN SSet(r.st, d, r.h) ELSE r.st]

\* d.reset(new Node(v), deleter, alloc);  [ok, mid, st]
\* SharedPtr<T>(ptr, del, alloc).swap(*this): mid is the state once the
\* temporary is constructed, st the state at the end of the full expression
\* (after swap and the temporary's destructor).
ResetPointerOn(st, d, v, allocOK, u) ==
    LET p == Fresh(st)
        r == FromPointer(NewNode(st, v), p, p, allocOK)
    IN [ok |-> r.ok, mid |-> r.st,
        st |-> IF r.ok THEN SwapInAndDrop(r.st, d, r.h, u) ELSE r.st]

\* SharedPtr::swap exchanging ptr only.
SwapPtrOnly(st, d, s) ==
    LET x == SGet(st, d)
        y == SGet(st, s)
    IN SSet(SSet(st, d, [x EXCEPT !.ptr = y.ptr]), s, [y EXCEPT !.ptr = x.ptr])

\* SharedPtr::swap
SwapOn(st, d, s) ==
    LET x == SGet(st, d)
        y == SGet(st, s)
    IN SSet(SSet(st, d, y), s, x)

\* the end of the scope of the client's variable n
DestructOn(st, n, u) == DtorShared(SSet(st, Var(n), NoHandle), st.sp[n], u)

\* SharedPtr<Node> n = w.lock();
LockOn(st, n, w) ==
    LET r == Lock(st, WGet(st, w))
    IN SSet(r.st, Var(n), r.h)

\* WeakPtr(WeakPtr&& other)
MoveWeak(st, s) ==
    [h |-> Handle(WGet(st, s).ptr, WGet(st, s).cb),
     st |-> WSet(st, s, NullHandle)]

\* WeakPtr: swap(copy) and the end of copy's scope
WeakSwapInAndDrop(st, d, h) ==
    LET old == WGet(st, d)
    IN DtorWeak(WSet(st, d, h), old)

\* WeakPtr::swap
WeakSwapOn(st, d, s) ==
    LET x == WGet(st, d)
        y == WGet(st, s)
    IN WSet(WSet(st, d, y), s, x)

\* WeakPtr<Node> n;
WeakDefaultConstructOn(st, n) == WSet(st, Var(n), NullHandle)

\* WeakPtr<Node> n(s);  with s a SharedPtr
WeakFromSharedOn(st, n, s) ==
    LET r == CopyWeak(st, SGet(st, s))
    IN WSet(r.st, Var(n), r.h)

\* WeakPtr<Node> n(s);  with s a WeakPtr
WeakCopyConstructOn(st, n, s) ==
    LET r == CopyWeak(st, WGet(st, s))
    IN WSet(r.st, Var(n), r.h)

\* WeakPtr<Node> n(std::move(s));
WeakMoveConstructOn(st, n, s) ==
    LET r == MoveWeak(st, s)
    IN WSet(r.st, Var(n), r.h)

\* WeakPtr::operator=(const WeakPtr& other)
WeakCopyAssignOn(st, d, s) ==
    LET r == CopyWeak(st, WGet(st, s))
    IN WeakSwapInAndDrop(r.st, d, r.h)

\* WeakPtr::operator=(WeakPtr&& other)
WeakMoveAssignOn(st, d, s) ==
    LET r == MoveWeak(st, s)
    IN WeakSwapInAndDrop(r.st, d, r.h)

\* d = s with d a WeakPtr and s a SharedPtr: the temporary WeakPtr(s),
\* operator=(WeakPtr&&) from it, and the end of the moved-from temporary
WeakAssignSharedOn(st, d, s) ==
    LET r == CopyWeak(st, SGet(st, s))
    IN WeakSwapInAndDrop(r.st, d, r.h)

\* the end of the scope of the client's variable n  (WeakPtr)
WeakDestructOn(st, n) == DtorWeak(WSet(st, Var(n), NoHandle), st.wp[n])

\* ------------------------------------------------------------ the actions
DefaultConstruct(n) ==
    /\ Running
    /\ ~sp[n].live
    /\ Install(DefaultConstructOn(Cur, n))
    /\ Ran("default", TRUE) /\ UNCHANGED twin

ConstructFromPointer(n, v, allocOK) ==
    /\ Running
    /\ ~sp[n].live
    /\ Unused(Cur) # {}
    /\ LET r == ConstructFromPointerOn(Cur, n, v, allocOK)
       IN Install(r.st) /\ Ran("from_pointer", r.ok) /\ UNCHANGED twin

ConstructFromNull(n, allocOK) ==
    /\ Running
    /\ ~sp[n].live
    /\ Unused(Cur) # {}
    /\ LET r == ConstructFromNullOn(Cur, n, allocOK)
       IN Install(r.st) /\ Ran("from_null", r.ok) /\ UNCHANGED twin

MakeShared(n, v, ctorOK) ==
    /\ Running
    /\ ~sp[n].live
    /\ Unused(Cur) # {}
    /\ LET r == MakeSharedOn(Cur, n, v, ctorOK)
       IN Install(r.st) /\ Ran("make_shared", r.ok) /\ UNCHANGED twin

CopyConstruct(n, s) ==
    /\ Running
    /\ ~sp[n].live
    /\ s \in StrongLocs(Cur)
    /\ Install(CopyConstructOn(Cur, n, s))
    /\ Ran("copy", TRUE) /\ UNCHANGED twin

MoveConstruct(n, s) ==
    /\ Running
    /\ ~sp[n].live
    /\ s \in StrongLocs(Cur)
    /\ Install(MoveConstructOn(Cur, n, s))
    /\ Ran("move", TRUE) /\ UNCHANGED twin

CopyAssign(d, s) ==
    /\ Running
    /\ d \in StrongLocs(Cur)
    /\ s \in StrongLocs(Cur)
    /\ \E u \in StaleChoices(StaleIn(Cur, CopyAssignOn(Cur, d, s, NoStale))) :
          Install(CopyAssignOn(Cur, d, s, u))
    /\ Ran("copy_assign", TRUE) /\ UNCHANGED twin

MoveAssign(d, s) ==
    /\ Running
    /\ d \in StrongLocs(Cur)
    /\ s \in StrongLocs(Cur)
    /\ \E u \in StaleChoices(StaleIn(Cur, MoveAssignOn(Cur, d, s, NoStale))) :
          Install(MoveAssignOn(Cur, d, s, u))
    /\ Ran("move_assign", TRUE) /\ UNCHANGED twin

Reset(d) ==
    /\ Running
    /\ d \in StrongLocs(Cur)
    /\ \E u \in StaleChoices(StaleIn(Cur, ResetOn(Cur, d, NoStale))) :
          Install(ResetOn(Cur, d, u))
    /\ Ran("reset", TRUE) /\ UNCHANGED twin

ResetPointer(d, v, allocOK) ==
    /\ Running
    /\ d \in StrongLocs(Cur)
    /\ Unused(Cur) # {}
    /\ \E u \in StaleChoices(StaleIn(Cur, ResetPointerOn(Cur, d, v, allocOK, NoStale).st)) :
          LET r == ResetPointerOn(Cur, d, v, allocOK, u)
          IN Install(r.st) /\ Ran("reset_pointer", r.ok) /\ UNCHANGED twin

Swap(d, s) ==
    /\ Running
    /\ d \in StrongLocs(Cur)
    /\ s \in StrongLocs(Cur)
    /\ Install(SwapOn(Cur, d, s))
    /\ Ran("swap", TRUE) /\ UNCHANGED twin

Destruct(n) ==
    /\ Running
    /\ sp[n].live
    /\ \E u \in StaleChoices(StaleIn(Cur, DestructOn(Cur, n, NoStale))) :
          Install(DestructOn(Cur, n, u))
    /\ Ran("destruct", TRUE) /\ UNCHANGED twin

LockWeak(n, w) ==
    /\ Running
    /\ ~sp[n].live
    /\ w \in WeakLocs(Cur)
    /\ Install(LockOn(Cur, n, w))
    /\ Ran("lock", TRUE) /\ UNCHANGED twin

WeakDefaultConstruct(n) ==
    /\ Running
    /\ ~wp[n].live
    /\ Install(WeakDefaultConstructOn(Cur, n))
    /\ Ran("weak_default", TRUE) /\ UNCHANGED twin

WeakFromShared(n, s) ==
    /\ Running
    /\ ~wp[n].live
    /\ s \in StrongLocs(Cur)
    /\ Install(WeakFromSharedOn(Cur, n, s))
    /\ Ran("weak_from_shared", TRUE) /\ UNCHANGED twin

WeakCopyConstruct(n, s) ==
    /\ Running
    /\ ~wp[n].live
    /\ s \in WeakLocs(Cur)
    /\ Install(WeakCopyConstructOn(Cur, n, s))
    /\ Ran("weak_copy", TRUE) /\ UNCHANGED twin

WeakMoveConstruct(n, s) ==
    /\ Running
    /\ ~wp[n].live
    /\ s \in WeakLocs(Cur)
    /\ Install(WeakMoveConstructOn(Cur, n, s))
    /\ Ran("weak_move", TRUE) /\ UNCHANGED twin

WeakCopyAssign(d, s) ==
    /\ Running
    /\ d \in WeakLocs(Cur)
    /\ s \in WeakLocs(Cur)
    /\ Install(WeakCopyAssignOn(Cur, d, s))
    /\ Ran("weak_copy_assign", TRUE) /\ UNCHANGED twin

WeakMoveAssign(d, s) ==
    /\ Running
    /\ d \in WeakLocs(Cur)
    /\ s \in WeakLocs(Cur)
    /\ Install(WeakMoveAssignOn(Cur, d, s))
    /\ Ran("weak_move_assign", TRUE) /\ UNCHANGED twin

WeakAssignShared(d, s) ==
    /\ Running
    /\ d \in WeakLocs(Cur)
    /\ s \in StrongLocs(Cur)
    /\ Install(WeakAssignSharedOn(Cur, d, s))
    /\ Ran("weak_assign_shared", TRUE) /\ UNCHANGED twin

WeakSwap(d, s) ==
    /\ Running
    /\ d \in WeakLocs(Cur)
    /\ s \in WeakLocs(Cur)
    /\ Install(WeakSwapOn(Cur, d, s))
    /\ Ran("weak_swap", TRUE) /\ UNCHANGED twin

WeakDestruct(n) ==
    /\ Running
    /\ wp[n].live
    /\ Install(WeakDestructOn(Cur, n))
    /\ Ran("weak_destruct", TRUE) /\ UNCHANGED twin

\* ------------------------------------------------------ the specifications
EmptyState ==
    [blk |-> [k \in Ids |-> FreeBlock],
     obj |-> [k \in Ids |-> NoObject],
     sp |-> [n \in StrongVars |-> NoHandle],
     wp |-> [n \in WeakVars |-> NoHandle],
     crashed |-> FALSE]

Init ==
    /\ blk = EmptyState.blk
    /\ obj = EmptyState.obj
    /\ sp = EmptyState.sp
    /\ wp = EmptyState.wp
    /\ crashed = EmptyState.crashed
    /\ last = [op |-> "none", ok |-> TRUE]
    /\ twin = EmptyState

\* The client's variables.
ClientS == {Var(n) : n \in StrongVars}
W1 == {"w"}
ClientW1 == {Var(n) : n \in W1}
ClientW == {Var(n) : n \in WeakVars}

\* Spec: the client holds SharedPtr a, b and WeakPtr w; no allocation fails and
\* no constructor throws; the values hold null handles.
Next ==
    \/ \E n \in StrongVars : DefaultConstruct(n)
    \/ \E n \in StrongVars : ConstructFromPointer(n, 5, TRUE)
    \/ \E n \in StrongVars : MakeShared(n, 5, TRUE)
    \/ \E n \in StrongVars, s \in ClientS : CopyConstruct(n, s)
    \/ \E n \in StrongVars, s \in ClientS : MoveConstruct(n, s)
    \/ \E d, s \in ClientS : CopyAssign(d, s)
    \/ \E d, s \in ClientS : MoveAssign(d, s)
    \/ \E d \in ClientS : Reset(d)
    \/ \E d \in ClientS : ResetPointer(d, 5, TRUE)
    \/ \E d, s \in ClientS : Swap(d, s)
    \/ \E n \in StrongVars : Destruct(n)
    \/ \E n \in StrongVars, w \in ClientW1 : LockWeak(n, w)
    \/ \E n \in W1 : WeakDefaultConstruct(n)
    \/ \E n \in W1, s \in ClientS : WeakFromShared(n, s)
    \/ \E d \in ClientW1, s \in ClientS : WeakAssignShared(d, s)
    \/ \E n \in W1 : WeakDestruct(n)

Spec == Init /\ [][Next]_vars

\* SpecCtor: the ways of making a control block, each with its failure: the
\* allocation of a ControlBlockRegular throwing, the constructor of the value
\* throwing inside allocateShared.
NextCtor ==
    \/ \E n \in StrongVars, v \in Vals, ok \in BOOLEAN : ConstructFromPointer(n, v, ok)
    \/ \E n \in StrongVars, ok \in BOOLEAN : ConstructFromNull(n, ok)
    \/ \E n \in StrongVars, v \in Vals, ok \in BOOLEAN : MakeShared(n, v, ok)
    \/ \E d \in ClientS, v \in Vals, ok \in BOOLEAN : ResetPointer(d, v, ok)
    \/ \E n \in StrongVars, s \in ClientS : CopyConstruct(n, s)
    \/ \E n \in StrongVars : Destruct(n)
    \/ \E n \in W1, s \in ClientS : WeakFromShared(n, s)
    \/ \E n \in StrongVars, w \in ClientW1 : LockWeak(n, w)
    \/ \E n \in W1 : WeakDestruct(n)

SpecCtor == Init /\ [][NextCtor]_vars

\* SpecNode: the values hold handles: a->next = s; and a->self = s; for the
\* values the client reaches through its SharedPtr variables.
NextNode ==
    \/ \E n \in StrongVars : MakeShared(n, 5, TRUE)
    \/ \E k \in Ids, s \in ClientS : CopyAssign(Member(k, "next"), s)
    \/ \E k \in Ids, s \in ClientS : WeakAssignShared(Member(k, "self"), s)
    \/ \E n \in StrongVars : Destruct(n)
    \/ \E n \in W1 : WeakDefaultConstruct(n)
    \/ \E n \in W1, s \in ClientS : WeakFromShared(n, s)
    \/ \E n \in W1 : WeakDestruct(n)

SpecNode == Init /\ [][NextNode]_vars

\* SpecTwin: two programs run the same statements, but where the first says
\* makeShared<Node>(v) the second (twin) says SharedPtr<Node>(new Node(v)).
TwinMake(n, v) ==
    /\ Running
    /\ ~sp[n].live
    /\ Unused(Cur) # {}
    /\ Install(MakeSharedOn(Cur, n, v, TRUE).st)
    /\ twin' = ConstructFromPointerOn(twin, n, v, TRUE).st
    /\ Ran("make_shared", TRUE)

TwinCopyConstruct(n, s) ==
    /\ Running
    /\ ~sp[n].live
    /\ s \in StrongLocs(Cur)
    /\ Install(CopyConstructOn(Cur, n, s))
    /\ twin' = CopyConstructOn(twin, n, s)
    /\ Ran("copy", TRUE)

TwinMoveAssign(d, s) ==
    /\ Running
    /\ d \in StrongLocs(Cur)
    /\ s \in StrongLocs(Cur)
    /\ \E u \in StaleChoices(StaleIn(Cur, MoveAssignOn(Cur, d, s, NoStale))
                              \cup StaleIn(twin, MoveAssignOn(twin, d, s, NoStale))) :
          /\ Install(MoveAssignOn(Cur, d, s, u))
          /\ twin' = MoveAssignOn(twin, d, s, u)
    /\ Ran("move_assign", TRUE)

TwinReset(d) ==
    /\ Running
    /\ d \in StrongLocs(Cur)
    /\ \E u \in StaleChoices(StaleIn(Cur, ResetOn(Cur, d, NoStale))
                              \cup StaleIn(twin, ResetOn(twin, d, NoStale))) :
          /\ Install(ResetOn(Cur, d, u))
          /\ twin' = ResetOn(twin, d, u)
    /\ Ran("reset", TRUE)

TwinDestruct(n) ==
    /\ Running
    /\ sp[n].live
    /\ \E u \in StaleChoices(StaleIn(Cur, DestructOn(Cur, n, NoStale))
                              \cup StaleIn(twin, DestructOn(twin, n, NoStale))) :
          /\ Install(DestructOn(Cur, n, u))
          /\ twin' = DestructOn(twin, n, u)
    /\ Ran("destruct", TRUE)

TwinWeakFromShared(n, s) ==
    /\ Running
    /\ ~wp[n].live
    /\ s \in StrongLocs(Cur)
    /\ Install(WeakFromSharedOn(Cur, n, s))
    /\ twin' = WeakFromSharedOn(twin, n, s)
    /\ Ran("weak_from_shared", TRUE)

TwinLockWeak(n, w) ==
    /\ Running
    /\ ~sp[n].live
    /\ w \in WeakLocs(Cur)
    /\ Install(LockOn(Cur, n, w))
    /\ twin' = LockOn(twin, n, w)
    /\ Ran("lock", TRUE)

TwinWeakDestruct(n) ==
    /\ Running
    /\ wp[n].live
    /\ Install(WeakDestructOn(Cur, n))
    /\ twin' = WeakDestructOn(twin, n)
    /\ Ran("weak_destruct", TRUE)

NextTwin ==
    \/ \E n \in StrongVars, v \in Vals : TwinMake(n, v)
    \/ \E n \in StrongVars, s \in ClientS : TwinCopyConstruct(n, s)
    \/ \E d, s \in ClientS : TwinMoveAssign(d, s)
    \/ \E d \in ClientS : TwinReset(d)
    \/ \E n \in StrongVars : TwinDestruct(n)
    \/ \E n \in W1, s \in ClientS : TwinWeakFromShared(n, s)
    \/ \E n \in StrongVars, w \in ClientW1 : TwinLockWeak(n, w)
    \/ \E n \in W1 : TwinWeakDestruct(n)

SpecTwin == Init /\ [][NextTwin]_vars

\* SpecWeak: every constructor, assignment and the destructor of WeakPtr, on
\* the client's WeakPtr w and x; the values are made by makeShared and owned
\* by the client's SharedPtr a.
NextWeak ==
    \/ MakeShared("a", 5, TRUE)
    \/ Destruct("a")
    \/ \E n \in WeakVars : WeakDefaultConstruct(n)
    \/ \E n \in WeakVars, s \in ClientS : WeakFromShared(n, s)
    \/ \E n \in WeakVars, s \in ClientW : WeakCopyConstruct(n, s)
    \/ \E n \in WeakVars, s \in ClientW : WeakMoveConstruct(n, s)
    \/ \E d, s \in ClientW : WeakCopyAssign(d, s)
    \/ \E d, s \in ClientW : WeakMoveAssign(d, s)
    \/ \E d \in ClientW, s \in ClientS : WeakAssignShared(d, s)
    \/ \E d, s \in ClientW : WeakSwap(d, s)
    \/ \E n \in WeakVars : WeakDestruct(n)

SpecWeak == Init /\ [][NextWeak]_vars

\* SpecAssign: copy assignment between all the SharedPtr objects the client
\* can name, the members next of the values it reaches included (a->next = b;
\* a = a->next; a->next = a->next;).
NextAssign ==
    \/ \E n \in StrongVars : MakeShared(n, 5, TRUE)
    \/ \E n \in StrongVars : ConstructFromPointer(n, 5, TRUE)
    \/ \E d, s \in ClientS \cup {Member(k, "next") : k \in Ids} : CopyAssign(d, s)
    \/ \E n \in StrongVars : Destruct(n)

SpecAssign == Init /\ [][NextAssign]_vars

\* ------------------------------------------------------------ the claims
\* The state after the step.
Nxt == [blk |-> blk', obj |-> obj', sp |-> sp', wp |-> wp', crashed |-> crashed']

\* Every SharedPtr / WeakPtr object there can be: the client's variables and
\* the members of the values.
AllStrongLocs == ClientS \cup {Member(k, "next") : k \in Ids}
AllWeakLocs == ClientW \cup {Member(k, "self") : k \in Ids}

\* The number of SharedPtr (WeakPtr) objects that exist and refer to block b.
StrongRefs(st, b) ==
    Cardinality({l \in AllStrongLocs : SGet(st, l).live /\ SGet(st, l).cb = b})
WeakRefs(st, b) ==
    Cardinality({l \in AllWeakLocs : WGet(st, l).live /\ WGet(st, l).cb = b})

\* The calls of destroy() (e = "destroy") or deallocate() on block b so far.
Calls(st, b, e) ==
    Cardinality({i \in DOMAIN st.blk[b].log : st.blk[b].log[i].ev = e})

\* The blocks that were constructed.
Blocks(st) == {b \in Ids : st.blk[b].state \in {"live", "released"}}

SameCounters(B) ==
    \A b \in B : /\ blk'[b].shared_count = blk[b].shared_count
                 /\ blk'[b].weak_count = blk[b].weak_count

\* C1: for every block, destroy() has run once if no SharedPtr refers to the
\* block any more and has not run if one still does, whatever the number of
\* WeakPtr; and the value's destructor has run as often as destroy(). As this
\* holds before and after every step, destroy() runs in the very step that
\* takes the last SharedPtr away.
C1_DestroyOnceWithLastStrong ==
    \A b \in Blocks(Cur) :
        /\ Calls(Cur, b, "destroy") = (IF StrongRefs(Cur, b) = 0 THEN 1 ELSE 0)
        /\ blk[b].kind = "makeshared" => obj[b].dtors = Calls(Cur, b, "destroy")
        /\ (blk[b].kind = "regular" /\ obj[b].state # "none")
              => obj[b].dtors = Calls(Cur, b, "destroy")

\* C1: the last SharedPtr of a block went away while a WeakPtr remains.
C1_Witness ==
    /\ last.op \in {"destruct", "reset"}
    /\ \E b \in Blocks(Cur) :
          /\ StrongRefs(Cur, b) = 0
          /\ WeakRefs(Cur, b) > 0
          /\ Calls(Cur, b, "destroy") = 1
          /\ obj[b].state = "destroyed"

\* C4: lock() on a null WeakPtr, or one whose value was destroyed, gives a null
\* SharedPtr and changes no counter; lock() on one whose value is alive gives a
\* SharedPtr on the same block with use_count() one more than the block's
\* shared_count before, and leaves weak_count and the other blocks alone.
C4_Lock ==
    [][\A n \in StrongVars, w \in ClientW :
          LockWeak(n, w) =>
             LET c == wp[w.var].cb
             IN IF c = NULL \/ Calls(Cur, c, "destroy") > 0
                THEN /\ sp'[n] = NullHandle
                     /\ SameCounters(Ids)
                ELSE /\ sp'[n].live /\ sp'[n].cb = c
                     /\ UseCount(Nxt, sp'[n]) = Inc(blk[c].shared_count)
                     /\ blk'[c].weak_count = blk[c].weak_count
                     /\ SameCounters(Ids \ {c})]_vars

\* C4: lock() has just given a SharedPtr on the block of a live value.
C4_Witness ==
    /\ last.op = "lock"
    /\ \E n \in StrongVars :
          /\ sp[n].live /\ sp[n].cb # NULL
          /\ wp["w"].live /\ wp["w"].cb = sp[n].cb
          /\ blk[sp[n].cb].shared_count = SizeT(2)

\* C5: for every WeakPtr, use_count() is the number of SharedPtr that refer to
\* its block (0 for a null WeakPtr), and expired() holds exactly when there is
\* none.
C5_WeakObservers ==
    \A l \in AllWeakLocs :
        LET h == WGet(Cur, l)
            n == IF h.cb = NULL THEN 0 ELSE StrongRefs(Cur, h.cb)
        IN h.live => /\ WeakUseCount(Cur, h) = SizeT(n)
                     /\ Expired(Cur, h) <=> (n = 0)

\* C5: w = WeakPtr(s); s.reset(); with s the only SharedPtr: w is expired.
C5_Witness ==
    /\ last.op = "reset"
    /\ wp["w"].live /\ wp["w"].cb # NULL
    /\ blk[wp["w"].cb].state = "live"
    /\ Calls(Cur, wp["w"].cb, "destroy") = 1
    /\ Expired(Cur, wp["w"]) /\ WeakUseCount(Cur, wp["w"]) = Zero

\* C6: copy construction from a SharedPtr with a block adds exactly one to that
\* block's shared_count, both handles then report the count before plus one,
\* and weak_count is unchanged; from a null SharedPtr it gives a null handle
\* with use_count() 0 and changes no counter.
C6_CopyConstruct ==
    [][\A n \in StrongVars, s \in ClientS :
          CopyConstruct(n, s) =>
             LET c == sp[s.var].cb
             IN IF c # NULL
                THEN /\ blk'[c].shared_count = Inc(blk[c].shared_count)
                     /\ UseCount(Nxt, sp'[n]) = Inc(UseCount(Cur, sp[s.var]))
                     /\ UseCount(Nxt, sp'[s.var]) = UseCount(Nxt, sp'[n])
                     /\ blk'[c].weak_count = blk[c].weak_count
                     /\ SameCounters(Ids \ {c})
                ELSE /\ sp'[n] = NullHandle
                     /\ UseCount(Nxt, sp'[n]) = Zero
                     /\ SameCounters(Ids)]_vars

\* C6: a copy of a SharedPtr with a block has just been made.
C6_Witness ==
    /\ last.op = "copy"
    /\ sp["a"].live /\ sp["b"].live
    /\ sp["a"].cb # NULL /\ sp["a"].cb = sp["b"].cb
    /\ UseCount(Cur, sp["a"]) = SizeT(2)

\* C2: for every block, deallocate() has run once if shared_count and
\* weak_count are both zero and has not run otherwise (so it runs exactly once,
\* in the step that brings the second counter to zero).
C2_ReleaseOnceWhenBothZero ==
    \A b \in Blocks(Cur) :
        Calls(Cur, b, "deallocate") =
            (IF blk[b].shared_count = Zero /\ blk[b].weak_count = Zero THEN 1 ELSE 0)

\* C3: deallocate() is never called before destroy() was, destroy() is never
\* called with shared_count > 0, deallocate() never with shared_count > 0 or
\* weak_count > 0, and neither is called on a block already released.
C3_CallOrder ==
    \A b \in Blocks(Cur) :
        LET log == blk[b].log
        IN \A i \in DOMAIN log :
              /\ log[i].ev = "destroy" => log[i].shared = Zero /\ ~log[i].released
              /\ log[i].ev = "deallocate" =>
                    /\ \E j \in 1..(i - 1) : log[j].ev = "destroy"
                    /\ log[i].shared = Zero /\ log[i].weak = Zero
                    /\ ~log[i].released

\* C7: when the allocation of the control block throws, the constructor from a
\* pointer leaves no handle and no block and does not touch the value the
\* pointer refers to; reset(pointer) likewise leaves its handle and all
\* counters as they were.
C7_AllocationFailure ==
    [][/\ \A n \in StrongVars, v \in Vals :
             ConstructFromPointer(n, v, FALSE) =>
                 /\ ~last'.ok
                 /\ sp' = sp /\ wp' = wp /\ blk' = blk
                 /\ obj' = [obj EXCEPT ![Fresh(Cur)] = NewObject(v)]
       /\ \A n \in StrongVars :
             ConstructFromNull(n, FALSE) =>
                 /\ ~last'.ok
                 /\ sp' = sp /\ wp' = wp /\ blk' = blk /\ obj' = obj
       /\ \A d \in ClientS, v \in Vals :
             ResetPointer(d, v, FALSE) =>
                 /\ ~last'.ok
                 /\ sp' = sp /\ wp' = wp /\ blk' = blk
                 /\ obj' = [obj EXCEPT ![Fresh(Cur)] = NewObject(v)]]_vars

\* C7: the constructor from a pointer has just thrown; the value is alive and
\* has no block.
C7_Witness ==
    /\ last.op = "from_pointer" /\ ~last.ok
    /\ \E k \in Ids : /\ obj[k].state = "alive" /\ obj[k].dtors = 0
                      /\ blk[k].state = "free"

\* C8: no storage allocated by allocateShared is left without a control block
\* in it: when the value's constructor throws, the allocation is released.
C8_FactoryReleasesOnThrow == \A b \in Ids : blk[b].state # "raw"

\* What a client can observe: use_count(), get() (null or not), the value
\* reached by * and ->, expired(), and the calls of destroy() and deallocate().
Observe(st, withGet) ==
    [use_count |-> [n \in StrongVars |->
        IF st.sp[n].live THEN UseCount(st, st.sp[n]) ELSE Zero],
     get |-> [n \in StrongVars |->
        withGet /\ st.sp[n].live /\ Get(st.sp[n]) # NULL],
     deref |-> [n \in StrongVars |->
        IF st.sp[n].live /\ UseCount(st, st.sp[n]) # Zero /\ Deref(st, st.sp[n]).defined
        THEN st.obj[Deref(st, st.sp[n]).at].val ELSE 0],
     weak_use_count |-> [n \in WeakVars |->
        IF st.wp[n].live THEN WeakUseCount(st, st.wp[n]) ELSE Zero],
     expired |-> [n \in WeakVars |-> st.wp[n].live /\ Expired(st, st.wp[n])],
     destroyed |-> [b \in Ids |-> Calls(st, b, "destroy")],
     value_destroyed |-> [b \in Ids |-> st.obj[b].dtors],
     released |-> [b \in Ids |-> Calls(st, b, "deallocate")]]

\* C9: the program using the factory and the program using the constructor
\* from a pointer are indistinguishable by what a client can observe.
C9_FactoryAsPointer == Observe(Cur, TRUE) = Observe(twin, TRUE)

\* The two programs differ in nothing but get().
FactoryAsPointerButGet == Observe(Cur, FALSE) = Observe(twin, FALSE)

\* C10: right after makeShared<Node>(v) returns, the handle refers to a newly
\* allocated ControlBlockMakeShared with shared_count 1 and weak_count 0,
\* use_count() is 1, and * reaches a live value built from v.
C10_Factory ==
    [][\A n \in StrongVars, v \in Vals :
          MakeShared(n, v, TRUE) =>
             LET c == sp'[n].cb
                 at == Deref(Nxt, sp'[n])
             IN /\ sp'[n].live /\ c # NULL
                /\ blk[c].state = "free"
                /\ blk'[c].state = "live" /\ blk'[c].kind = "makeshared"
                /\ blk'[c].shared_count = One /\ blk'[c].weak_count = Zero
                /\ UseCount(Nxt, sp'[n]) = One
                /\ at.defined
                /\ obj'[at.at].state = "alive" /\ obj'[at.at].val = v
                /\ SameCounters(Ids \ {c})]_vars

\* C10: makeShared<Node>(42) has just returned.
C10_Witness ==
    /\ last.op = "make_shared" /\ last.ok
    /\ \E n \in StrongVars :
          /\ sp[n].live /\ UseCount(Cur, sp[n]) = One
          /\ Deref(Cur, sp[n]).defined
          /\ obj[Deref(Cur, sp[n]).at].val = 42

\* The value a control block owns: *ptr of a ControlBlockRegular, the member
\* ptr of a ControlBlockMakeShared.
ValueOf(st, c) == IF st.blk[c].kind = "regular" THEN st.blk[c].ptr ELSE c

\* C11: reset(new Node(v)) leaves the handle on a newly allocated block with
\* shared_count 1; once the temporary that owns the new block is constructed
\* the old block is still as it was (same counters, no destroy() yet) and the
\* new block exists with shared_count 1; at the end the old block's
\* shared_count is one less than before, and when the handle was the old
\* block's last SharedPtr destroy() ran on it once and the old value's
\* destructor ran once, otherwise not at all. reset() takes one from the old
\* block's shared_count (with destroy() once if it was the last) and leaves the
\* handle null with use_count() 0. No other block's counter changes.
C11_Reset ==
    [][/\ \A d \in ClientS :
             ResetPointer(d, 5, TRUE) =>
                LET c == sp[d.var].cb
                    n == sp'[d.var].cb
                    mid == ResetPointerOn(Cur, d, 5, TRUE, NoStale).mid
                IN /\ sp'[d.var].live /\ n # NULL
                   /\ blk[n].state = "free" /\ blk'[n].state = "live"
                   /\ blk'[n].shared_count = One /\ blk'[n].weak_count = Zero
                   /\ UseCount(Nxt, sp'[d.var]) = One
                   /\ mid.blk[n].state = "live" /\ mid.blk[n].shared_count = One
                   /\ mid.sp = sp
                   /\ c # NULL =>
                         /\ mid.blk[c] = blk[c]
                         /\ mid.obj[ValueOf(Cur, c)] = obj[ValueOf(Cur, c)]
                         /\ blk'[c].shared_count = Dec(blk[c].shared_count)
                         /\ blk'[c].weak_count = blk[c].weak_count
                         /\ IF blk[c].shared_count = One
                            THEN /\ Calls(Cur, c, "destroy") = 0
                                 /\ Calls(Nxt, c, "destroy") = 1
                                 /\ obj'[ValueOf(Cur, c)].dtors = 1
                            ELSE /\ Calls(Nxt, c, "destroy") = 0
                                 /\ obj'[ValueOf(Cur, c)].dtors = 0
                   /\ SameCounters(Ids \ {c, n})
       /\ \A d \in ClientS :
             Reset(d) =>
                LET c == sp[d.var].cb
                IN /\ sp'[d.var] = NullHandle
                   /\ UseCount(Nxt, sp'[d.var]) = Zero
                   /\ c # NULL =>
                         /\ blk'[c].shared_count = Dec(blk[c].shared_count)
                         /\ blk'[c].weak_count = blk[c].weak_count
                         /\ Calls(Nxt, c, "destroy") =
                               (IF blk[c].shared_count = One THEN 1 ELSE 0)
                   /\ SameCounters(Ids \ {c})]_vars

\* C11: reset(new Node(v)) on the last SharedPtr of a value: the old value was
\* destroyed and the handle owns the new block.
C11_Witness ==
    /\ last.op = "reset_pointer" /\ last.ok
    /\ \E n \in StrongVars, c \in Ids :
          /\ sp[n].live /\ sp[n].cb # NULL /\ sp[n].cb # c
          /\ blk[sp[n].cb].shared_count = One
          /\ Calls(Cur, c, "destroy") = 1
          /\ obj[c].dtors = 1

\* What move assignment d = std::move(s) does to the counters and the calls:
\* one less in shared_count of the block d referred to before (o), destroy()
\* on it once if that was its last SharedPtr, weak_count as it was, and nothing
\* else changed.
MoveAssignReleases(o) ==
    /\ \A b \in Ids :
          /\ blk'[b].shared_count =
                Add(blk[b].shared_count, -(IF b = o THEN 1 ELSE 0))
          /\ blk'[b].weak_count = blk[b].weak_count
          /\ Calls(Nxt, b, "destroy") =
                Calls(Cur, b, "destroy") +
                   (IF b = o /\ blk[b].shared_count = One THEN 1 ELSE 0)

\* Move construction n(std::move(s)): n refers to what s referred to, s is
\* null with use_count() 0, and no counter of any block changed.
MoveConstructTransfers ==
    \A n \in StrongVars, s \in ClientS :
        MoveConstruct(n, s) =>
           /\ sp'[n] = Handle(sp[s.var].ptr, sp[s.var].cb)
           /\ sp'[s.var] = NullHandle
           /\ UseCount(Nxt, sp'[s.var]) = Zero
           /\ SameCounters(Ids)
           /\ \A b \in Ids : Calls(Nxt, b, "destroy") = Calls(Cur, b, "destroy")

\* C12 as stated: move construction, and move assignment d = std::move(s) for
\* every d and s, leave the destination on the source's block and the source
\* null, and move assignment releases the destination's previous ownership
\* exactly once.
C12_MoveAnySource ==
    [][/\ MoveConstructTransfers
       /\ \A d, s \in ClientS :
             MoveAssign(d, s) =>
                /\ sp'[d.var].cb = sp[s.var].cb
                /\ sp'[s.var] = NullHandle
                /\ MoveAssignReleases(sp[d.var].cb)]_vars

\* C12, amended: the above for d and s two different objects; d = std::move(d)
\* leaves d, every counter and every value as they were.
C12_Move ==
    [][/\ MoveConstructTransfers
       /\ \A d, s \in ClientS :
             MoveAssign(d, s) =>
                IF d # s
                THEN /\ sp'[d.var] = Handle(sp[s.var].ptr, sp[s.var].cb)
                     /\ sp'[s.var] = NullHandle
                     /\ UseCount(Nxt, sp'[s.var]) = Zero
                     /\ MoveAssignReleases(sp[d.var].cb)
                ELSE /\ sp' = sp /\ blk' = blk /\ obj' = obj]_vars

\* C12: b = std::move(a) with b the last SharedPtr of another value: a is null,
\* b took a's block, b's previous value was destroyed.
C12_Witness ==
    /\ last.op = "move_assign"
    /\ \E n, m \in StrongVars, c \in Ids :
          /\ sp[n] = NullHandle
          /\ sp[m].live /\ sp[m].cb # NULL /\ sp[m].cb # c
          /\ blk[sp[m].cb].shared_count = One
          /\ Calls(Cur, c, "destroy") = 1

\* What an operation on WeakPtr does to the blocks and the values: one more in
\* weak_count of block inc, one less in weak_count of block dec (NULL: none),
\* every shared_count as it was, no destroy() and no destructor of a value.
WeakEffect(inc, dec) ==
    /\ \A b \in Ids :
          /\ blk'[b].shared_count = blk[b].shared_count
          /\ blk'[b].weak_count =
                Add(blk[b].weak_count, (IF b = inc THEN 1 ELSE 0)
                                       - (IF b = dec THEN 1 ELSE 0))
          /\ Calls(Nxt, b, "destroy") = Calls(Cur, b, "destroy")
    /\ \A k \in Ids : /\ obj'[k].dtors = obj[k].dtors
                       /\ obj'[k].state = obj[k].state
    /\ sp' = sp

\* Construction from a SharedPtr, copy, move construction, copy assignment,
\* assignment from a SharedPtr and destruction of a WeakPtr.
WeakOpsButMoveAssign ==
    /\ \A n \in WeakVars, s \in ClientS :
          WeakFromShared(n, s) =>
             /\ wp'[n] = Handle(sp[s.var].ptr, sp[s.var].cb)
             /\ WeakEffect(sp[s.var].cb, NULL)
    /\ \A n \in WeakVars, s \in ClientW :
          WeakCopyConstruct(n, s) =>
             /\ wp'[n] = wp[s.var] /\ wp'[s.var] = wp[s.var]
             /\ WeakEffect(wp[s.var].cb, NULL)
    /\ \A n \in WeakVars, s \in ClientW :
          WeakMoveConstruct(n, s) =>
             /\ wp'[n] = wp[s.var] /\ wp'[s.var] = NullHandle
             /\ WeakEffect(NULL, NULL)
    /\ \A d, s \in ClientW :
          WeakCopyAssign(d, s) =>
             /\ wp'[d.var] = wp[s.var]
             /\ WeakEffect(wp[s.var].cb, wp[d.var].cb)
    /\ \A d \in ClientW, s \in ClientS :
          WeakAssignShared(d, s) =>
             /\ wp'[d.var] = Handle(sp[s.var].ptr, sp[s.var].cb)
             /\ WeakEffect(sp[s.var].cb, wp[d.var].cb)
    /\ \A n \in WeakVars :
          WeakDestruct(n) =>
             /\ ~wp'[n].live
             /\ WeakEffect(NULL, wp[n].cb)

\* C13 as stated: no operation on WeakPtr changes a shared_count or destroys a
\* value; construction and copy from a non-null source add one to its block's
\* weak_count; a move, move assignment d = std::move(s) for every d and s
\* included, keeps the source's count and leaves the source null; assigning
\* over or destroying a WeakPtr takes one from its previous block's weak_count.
C13_WeakOpsAnySource ==
    [][/\ WeakOpsButMoveAssign
       /\ \A d, s \in ClientW :
             WeakMoveAssign(d, s) =>
                /\ wp'[d.var].cb = wp[s.var].cb
                /\ wp'[s.var] = NullHandle
                /\ WeakEffect(NULL, wp[d.var].cb)]_vars

\* C13, amended: the above with move assignment for d and s two different
\* objects; d = std::move(d) leaves d and every counter as they were.
C13_WeakOps ==
    [][/\ WeakOpsButMoveAssign
       /\ \A d, s \in ClientW :
             WeakMoveAssign(d, s) =>
                IF d # s
                THEN /\ wp'[d.var] = wp[s.var]
                     /\ wp'[s.var] = NullHandle
                     /\ WeakEffect(NULL, wp[d.var].cb)
                ELSE /\ wp' = wp /\ WeakEffect(NULL, NULL)]_vars

\* C13: w = std::move(x) with w on another block before: x is null, w took
\* x's block, and w's previous block, which had no other handle, was released.
C13_Witness ==
    /\ last.op = "weak_move_assign"
    /\ wp["x"] = NullHandle
    /\ wp["w"].live /\ wp["w"].cb # NULL
    /\ blk[wp["w"].cb].weak_count = One
    /\ \E c \in Ids \ {wp["w"].cb} :
          /\ blk[c].state = "released"
          /\ Calls(Cur, c, "destroy") = 1

\* C14: d.swap(s) leaves d with the ptr and cb s had and s with those d had,
\* changes no control block (no counter, no call of destroy() or deallocate()),
\* no value and no WeakPtr; a second d.swap(s) gives the state before the first.
C14_Swap ==
    [][\A d, s \in ClientS :
          Swap(d, s) =>
             /\ sp'[d.var] = sp[s.var]
             /\ sp'[s.var] = sp[d.var]
             /\ \A n \in StrongVars \ {d.var, s.var} : sp'[n] = sp[n]
             /\ blk' = blk /\ obj' = obj /\ wp' = wp
             /\ SwapOn(Nxt, d, s) = Cur]_vars

\* C14: a.swap(b) with a and b on two different blocks, one made by the
\* factory and one from a pointer.
C14_Witness ==
    /\ last.op = "swap"
    /\ sp["a"].live /\ sp["b"].live
    /\ sp["a"].cb # NULL /\ sp["b"].cb # NULL /\ sp["a"].cb # sp["b"].cb
    /\ Get(sp["a"]) # Get(sp["b"])

\* C15: for every control block that is constructed and not released,
\* shared_count is the number of SharedPtr objects whose cb is the block and
\* weak_count the number of WeakPtr objects whose cb is the block; every
\* SharedPtr with a block sees shared_count # Zero and every WeakPtr with a block
\* weak_count # Zero; and no counter of any block ever wrapped around (none
\* exceeds the number of handle objects there can be).
C15_CountsAreHandles ==
    /\ \A b \in Ids :
          /\ blk[b].state = "live" =>
                /\ blk[b].shared_count = SizeT(StrongRefs(Cur, b))
                /\ blk[b].weak_count = SizeT(WeakRefs(Cur, b))
          /\ \E n \in 0..Cardinality(AllStrongLocs) : blk[b].shared_count = SizeT(n)
          /\ \E n \in 0..Cardinality(AllWeakLocs) : blk[b].weak_count = SizeT(n)
    /\ \A l \in AllStrongLocs :
          (SGet(Cur, l).live /\ SGet(Cur, l).cb # NULL)
             => blk[SGet(Cur, l).cb].shared_count # Zero
    /\ \A l \in AllWeakLocs :
          (WGet(Cur, l).live /\ WGet(Cur, l).cb # NULL)
             => blk[WGet(Cur, l).cb].weak_count # Zero

\* C15: a block with two SharedPtr (one of them the result of lock()) and one
\* WeakPtr.
C15_Witness ==
    /\ last.op = "lock"
    /\ sp["a"].live /\ sp["b"].live /\ wp["w"].live
    /\ sp["a"].cb # NULL /\ sp["a"].cb = sp["b"].cb /\ wp["w"].cb = sp["a"].cb
    /\ blk[sp["a"].cb].shared_count = SizeT(2)
    /\ blk[sp["a"].cb].weak_count = One

\* C16: every SharedPtr object with a block refers to a block on which
\* destroy() was not called and whose value, if it has one, is alive; and
\* every SharedPtr or WeakPtr object with a block refers to a block that is
\* constructed and not released.
C16_NothingDangles ==
    /\ \A l \in AllStrongLocs :
          LET h == SGet(Cur, l)
          IN (h.live /\ h.cb # NULL) =>
                /\ blk[h.cb].state = "live"
                /\ Calls(Cur, h.cb, "destroy") = 0
                /\ ValueOf(Cur, h.cb) # NULL => obj[ValueOf(Cur, h.cb)].state = "alive"
                /\ h.ptr # NULL => obj[h.ptr].state = "alive"
    /\ \A l \in AllWeakLocs :
          LET h == WGet(Cur, l)
          IN (h.live /\ h.cb # NULL) => blk[h.cb].state = "live"

\* C16: lock() on a WeakPtr whose value was destroyed has just returned a null
\* SharedPtr; the WeakPtr still refers to the block, which is not released.
C16_Witness ==
    /\ last.op = "lock"
    /\ wp["w"].live /\ wp["w"].cb # NULL
    /\ Calls(Cur, wp["w"].cb, "destroy") = 1
    /\ obj[wp["w"].cb].state = "destroyed"
    /\ blk[wp["w"].cb].state = "live"
    /\ \E n \in StrongVars : sp[n] = NullHandle

\* C17: for every SharedPtr object with use_count() > 0, * and -> reach a
\* value that is alive: ptr is not null, or ptr is null and the block is a
\* ControlBlockMakeShared.
C17_DerefReachesValue ==
    \A l \in AllStrongLocs :
        LET h == SGet(Cur, l)
        IN (h.live /\ UseCount(Cur, h) # Zero) =>
              /\ Deref(Cur, h).defined
              /\ obj[Deref(Cur, h).at].state = "alive"
              /\ h.ptr # NULL \/ blk[h.cb].kind = "makeshared"

\* The number of SharedPtr members on block c of the values whose destructor
\* ran in the step.
DroppedByValues(c) ==
    Cardinality({k \in Ids : /\ obj[k].state = "alive"
                             /\ obj'[k].state = "destroyed"
                             /\ obj[k].next.live
                             /\ obj[k].next.cb = c})

\* C18: after d = s, d holds the ptr and cb s held before, and the block it
\* now refers to is alive (not released, destroy() never called on it: it was
\* counted for d before d's previous block was given up). When d and s
\* referred to the same block before (d = d included), nothing changed: no
\* counter, no call of destroy() or deallocate(), no value. Otherwise d's
\* previous block has one less in shared_count, with destroy() called on it
\* once if d was its last SharedPtr, and s's block has one more, less the
\* SharedPtr members on it of the values destroyed in the assignment.
C18_CopyAssign ==
    [][\A d, s \in AllStrongLocs :
          (last'.op = "copy_assign" /\ CopyAssign(d, s)) =>
             LET src == SGet(Cur, s)
                 c == src.cb
                 o == SGet(Cur, d).cb
             IN /\ SGet(Nxt, d) = Handle(src.ptr, c)
                /\ c # NULL =>
                      /\ blk'[c].state = "live"
                      /\ blk'[c].shared_count # Zero
                      /\ Calls(Nxt, c, "destroy") = 0
                      /\ obj'[ValueOf(Cur, c)].state = "alive"
                /\ IF c = o
                   THEN /\ blk' = blk /\ obj' = obj /\ sp' = sp /\ wp' = wp
                   ELSE /\ o # NULL =>
                             /\ blk'[o].shared_count = Dec(blk[o].shared_count)
                             /\ blk'[o].weak_count = blk[o].weak_count
                             /\ Calls(Nxt, o, "destroy") =
                                   (IF blk[o].shared_count = One THEN 1 ELSE 0)
                        /\ c # NULL =>
                             /\ blk'[c].shared_count =
                                   Add(blk[c].shared_count, 1 - DroppedByValues(c))
                             /\ blk'[c].weak_count = blk[c].weak_count]_vars

\* C18: a copy assignment has just left a as the only SharedPtr of a value
\* while the value a owned before was destroyed (as in a = a->next).
C18_Witness ==
    /\ last.op = "copy_assign"
    /\ sp["a"].live /\ ~sp["b"].live /\ sp["a"].cb # NULL
    /\ blk[sp["a"].cb].shared_count = One
    /\ obj[sp["a"].cb].state = "alive"
    /\ \E o \in Ids \ {sp["a"].cb} : /\ Calls(Cur, o, "destroy") = 1
                                     /\ obj[o].state = "destroyed"

\* C19: no control block is touched once it is released: its log holds at most
\* one deallocate(), and no entry (a read of weak_count by ~SharedPtr, a call
\* of deallocate(), a write of ptr by destroy()) made when the block was
\* already released by the ~WeakPtr of a handle its value held.
C19_SelfWeak ==
    \A b \in Ids :
        /\ Calls(Cur, b, "deallocate") <= 1
        /\ \A i \in DOMAIN blk[b].log : ~blk[b].log[i].released

\* The values k and j are alive and each holds, in its member next, a SharedPtr
\* to the other's control block.
InCycle(st, k, j) ==
    /\ k # j
    /\ st.obj[k].state = "alive" /\ st.obj[j].state = "alive"
    /\ st.obj[k].next.live /\ st.obj[k].next.cb = j
    /\ st.obj[j].next.live /\ st.obj[j].next.cb = k

\* No SharedPtr and no WeakPtr outside the values k and j refers to their
\* blocks.
NoneOutside(st, k, j) ==
    /\ \A l \in AllStrongLocs :
          (l.mem \notin {k, j} /\ SGet(st, l).live) => SGet(st, l).cb \notin {k, j}
    /\ \A l \in AllWeakLocs :
          (l.mem \notin {k, j} /\ WGet(st, l).live) => WGet(st, l).cb \notin {k, j}

\* Neither value was destroyed and neither block released.
Kept(st, k, j) ==
    \A b \in {k, j} :
        /\ st.blk[b].state = "live"
        /\ st.blk[b].shared_count # Zero
        /\ Calls(st, b, "destroy") = 0
        /\ Calls(st, b, "deallocate") = 0
        /\ st.obj[b].state = "alive" /\ st.obj[b].dtors = 0

\* C20: for two values in a cycle of SharedPtr, the destruction of a SharedPtr
\* or WeakPtr of the client leaves the cycle in place, both blocks with
\* shared_count # Zero, no destroy() and no deallocate(); and once no handle
\* outside the cycle is left, every step leaves both blocks and both values
\* exactly as they are, with no handle outside the cycle again.
C20_CycleLeaks ==
    [][\A k, j \in Ids :
          /\ (InCycle(Cur, k, j) /\ last'.op \in {"destruct", "weak_destruct"})
                => (InCycle(Nxt, k, j) /\ Kept(Nxt, k, j))
          /\ (InCycle(Cur, k, j) /\ NoneOutside(Cur, k, j))
                => /\ InCycle(Nxt, k, j) /\ NoneOutside(Nxt, k, j)
                   /\ Kept(Nxt, k, j)
                   /\ blk'[k] = blk[k] /\ blk'[j] = blk[j]
                   /\ obj'[k] = obj[k] /\ obj'[j] = obj[j]]_vars

\* C20: the last handle outside a cycle of two values has just been destroyed;
\* both values are alive with shared_count 1.
C20_Witness ==
    /\ last.op = "destruct"
    /\ InCycle(Cur, 1, 2) /\ NoneOutside(Cur, 1, 2) /\ Kept(Cur, 1, 2)
    /\ blk[1].shared_count = One /\ blk[2].shared_count = One
    /\ \A n \in StrongVars : ~sp[n].live

====
